---- MODULE Spec2Model ----
(***************************************************************************)
(* Design-harmony plugin (code.ts) and its panel (ui.html).                *)
(*                                                                         *)
(* The document is a tree of typed nodes owned by the host; the plugin     *)
(* only reads it.  Numbers the code keeps as IEEE doubles are modelled as  *)
(* exact rationals (numerator/denominator pairs); Infinity, -Infinity and  *)
(* the host's "mixed" symbol are modelled as tagged values.                *)
(***************************************************************************)
EXTENDS Integers, Sequences, FiniteSets, TLC

VARIABLES
    doc,            \* the host document: node id -> node attributes
    selection,      \* figma.currentPage.selection
    controlNode,    \* code.ts:348
    referenceNode,  \* code.ts:349
    storage,        \* figma.clientStorage: controlNodeId, referenceNodeId
    tasks,          \* suspended invocations of figma.ui.onmessage
    posted,         \* messages the last handler step posted to the panel
    controlSet,     \* ui.html:244
    referenceSet,   \* ui.html:245
    notices,        \* the figma.notify calls of the last handler step
    lastToggle,     \* value carried by the last toggle-baseline message
    lastScan,       \* the run-scan the last handler step belongs to
    call            \* one application of a function of the plugin (observation)

vars == <<doc, selection, controlNode, referenceNode, storage, tasks, posted,
          controlSet, referenceSet, notices, lastToggle, lastScan, call>>

-----------------------------------------------------------------------------
(* Bounds of the model                                                     *)

MaxInFlight == 1    \* suspended handler invocations at one time

-----------------------------------------------------------------------------
(* Values                                                                  *)

Null == 0           \* null / no node; also the parent of a top-level node
Nodes == 1..8

Num(v) == [kind |-> "number", v |-> v]
MixedVal == [kind |-> "symbol", v |-> 0]      \* figma.mixed
Undefined == [kind |-> "undefined", v |-> 0]
IsNumber(x) == x.kind = "number"

\* Extended numbers: the results of Math.min / Math.max over a list.
Fin(v) == [inf |-> 0, v |-> v]
PosInf == [inf |-> 1, v |-> 0]
NegInf == [inf |-> -1, v |-> 0]

\* a <= b on extended numbers
ExtLeq(a, b) ==
    IF a.inf = 0 /\ b.inf = 0 THEN a.v <= b.v ELSE
    IF a.inf = -1 THEN TRUE ELSE
    IF b.inf = 1 THEN TRUE ELSE FALSE

\* Math.round on the rational n/d, d > 0: floor(n/d + 1/2)
MathRound(n, d) == (2 * n + d) \div (2 * d)

Abs(x) == IF x < 0 THEN -x ELSE x
MaxInt(a, b) == IF a >= b THEN a ELSE b

RECURSIVE SeqSum(_)
SeqSum(s) == IF s = <<>> THEN 0 ELSE Head(s) + SeqSum(Tail(s))

RECURSIVE SeqMin(_)
\* Math.min(...s): Infinity for the empty list
SeqMin(s) ==
    IF s = <<>> THEN PosInf
    ELSE LET r == SeqMin(Tail(s))
         IN IF r.inf = 1 \/ Head(s) < r.v THEN Fin(Head(s)) ELSE r

RECURSIVE SeqMax(_)
\* Math.max(...s): -Infinity for the empty list
SeqMax(s) ==
    IF s = <<>> THEN NegInf
    ELSE LET r == SeqMax(Tail(s))
         IN IF r.inf = -1 \/ Head(s) > r.v THEN Fin(Head(s)) ELSE r

\* {min, max, avg} of a list of numbers; avg = sum / length || 0
RangeOf(s) ==
    [min |-> SeqMin(s),
     max |-> SeqMax(s),
     avg |-> IF s = <<>> THEN [n |-> 0, d |-> 1]
             ELSE [n |-> SeqSum(s), d |-> Len(s)]]

Range(s) == {s[i] : i \in DOMAIN s}

RECURSIVE Dedup(_)
\* insertion order of a JavaScript Set
Dedup(s) ==
    IF s = <<>> THEN <<>>
    ELSE LET front == Dedup(SubSeq(s, 1, Len(s) - 1))
             last == s[Len(s)]
         IN IF last \in Range(front) THEN front ELSE Append(front, last)

-----------------------------------------------------------------------------
(* rgbToHex                                                                *)

HexDigits == <<"0", "1", "2", "3", "4", "5", "6", "7",
               "8", "9", "A", "B", "C", "D", "E", "F">>

\* A colour channel is the rational k/1000 in [0, 1].
Channel(k) == MathRound(k * 255, 1000)

RECURSIVE ToHex(_, _)
\* the last `width` base-16 digits of n, upper case
ToHex(n, width) ==
    IF width = 0 THEN <<>>
    ELSE Append(ToHex(n \div 16, width - 1), HexDigits[(n % 16) + 1])

rgbToHex(color) ==
    LET r == Channel(color.r)
        g == Channel(color.g)
        b == Channel(color.b)
        n == 16777216 + r * 65536 + g * 256 + b
    IN <<"#">> \o Tail(ToHex(n, 7))

-----------------------------------------------------------------------------
(* The document                                                            *)

\* A name is a sequence of one-character strings.
Upper == <<"A", "B", "C", "D", "E", "F", "I", "L", "T", "X">>
Lower == <<"a", "b", "c", "d", "e", "f", "i", "l", "t", "x">>

\* String.prototype.toLowerCase, one character
LowerChar(c) ==
    IF \E i \in DOMAIN Upper : Upper[i] = c
    THEN Lower[CHOOSE i \in DOMAIN Upper : Upper[i] = c]
    ELSE c

toLowerCase(s) == [i \in DOMAIN s |-> LowerChar(s[i])]

\* String.prototype.includes
includes(s, p) ==
    \E i \in 0..(Len(s) - Len(p)) : SubSeq(s, i + 1, i + Len(p)) = p

Solid(c) == [type |-> "SOLID", color |-> c, visible |-> TRUE]
HiddenSolid(c) == [type |-> "SOLID", color |-> c, visible |-> FALSE]
Gradient == [type |-> "GRADIENT_LINEAR", color |-> [r |-> 0, g |-> 0, b |-> 0],
             visible |-> TRUE]

White == [r |-> 1000, g |-> 1000, b |-> 1000]     \* #FFFFFF
Black == [r |-> 0, g |-> 0, b |-> 0]              \* #000000
Other == [r |-> 71, g |-> 204, b |-> 337]         \* #123456

\* The value of node.fills / node.strokes: no such attribute, figma.mixed,
\* or an array of paints.
NoPaints == [kind |-> "absent", paints |-> <<>>]
MixedPaints == [kind |-> "symbol", paints |-> <<>>]
Paints(ps) == [kind |-> "array", paints |-> ps]

Font(f, s) == [kind |-> "object", family |-> f, style |-> s]
MixedFont == [kind |-> "symbol", family |-> "", style |-> ""]
NoFont == [kind |-> "absent", family |-> "", style |-> ""]

Node(type, name, parent, children) ==
    [type |-> type, name |-> name, visible |-> TRUE, parent |-> parent,
     hasChildren |-> type \in {"FRAME", "INSTANCE"}, children |-> children,
     cornerRadius |-> IF type = "TEXT" THEN <<>> ELSE <<Num(0)>>,
     fills |-> Paints(<<>>), strokes |-> Paints(<<>>),
     width |-> 1, height |-> 1,
     fontName |-> NoFont, fontSize |-> Undefined,
     padding |-> IF type \in {"FRAME", "INSTANCE"} THEN <<0, 0, 0, 0>> ELSE <<>>]

\* A design library (1) holding two buttons (2, 3) with their labels (4, 5),
\* and a component to check (6) with a background (7) and a title (8).
BaseDoc ==
    [n \in Nodes |->
        CASE n = 1 -> [Node("FRAME", <<"L", "i", "b", "r", "a", "r", "y">>, Null, <<2, 3>>)
                         EXCEPT !.width = 10, !.height = 10]
          [] n = 2 -> [Node("FRAME", <<"B", "u", "t", "t", "o", "n">>, 1, <<4>>)
                         EXCEPT !.cornerRadius = <<Num(4)>>,
                                !.fills = Paints(<<Solid(White)>>),
                                !.width = 4, !.height = 2,
                                !.padding = <<8, 8, 4, 4>>]
          [] n = 3 -> [Node("INSTANCE", <<"b", "t", "n">>, 1, <<5>>)
                         EXCEPT !.cornerRadius = <<Num(8)>>,
                                !.fills = Paints(<<Solid(Black)>>),
                                !.width = 4, !.height = 2,
                                !.padding = <<16, 16, 8, 8>>]
          [] n = 4 -> [Node("TEXT", <<"L", "a", "b", "e", "l">>, 2, <<>>)
                         EXCEPT !.fills = Paints(<<Solid(Black)>>),
                                !.fontName = Font("Inter", "Bold"),
                                !.fontSize = Num(14)]
          [] n = 5 -> [Node("TEXT", <<"L", "a", "b", "e", "l">>, 3, <<>>)
                         EXCEPT !.fills = Paints(<<Solid(White)>>),
                                !.fontName = Font("Roboto", "Regular"),
                                !.fontSize = Num(16)]
          [] n = 6 -> [Node("FRAME", <<"C", "T", "A">>, Null, <<7, 8>>)
                         EXCEPT !.cornerRadius = <<Num(6)>>,
                                !.fills = Paints(<<Solid(White)>>),
                                !.width = 4, !.height = 2,
                                !.padding = <<8, 8, 4, 4>>]
          [] n = 7 -> [Node("RECTANGLE", <<"b", "g">>, 6, <<>>)
                         EXCEPT !.cornerRadius = <<Num(4)>>,
                                !.fills = Paints(<<Solid(Other)>>),
                                !.width = 3, !.height = 1]
          [] n = 8 -> [Node("TEXT", <<"T", "i", "t", "l", "e">>, 6, <<>>)
                         EXCEPT !.fontName = Font("Inter", "Bold"),
                                !.fontSize = Num(16)]]

-----------------------------------------------------------------------------
(* Traversal and classification                                            *)

COMPONENT_TYPES ==
    << [name |-> "Input Field",
        nodeTypes |-> {"FRAME", "RECTANGLE", "TEXT"},
        namePatterns |-> << <<"i", "n", "p", "u", "t">>,
                            <<"f", "i", "e", "l", "d">>,
                            <<"t", "e", "x", "t", " ", "f", "i", "e", "l", "d">>,
                            <<"t", "e", "x", "t", "a", "r", "e", "a">> >>],
       [name |-> "Button",
        nodeTypes |-> {"INSTANCE", "FRAME", "RECTANGLE", "TEXT"},
        namePatterns |-> << <<"b", "u", "t", "t", "o", "n">>,
                            <<"b", "t", "n">>,
                            <<"c", "t", "a">> >>],
       [name |-> "Icon",
        nodeTypes |-> {"VECTOR", "FRAME", "INSTANCE"},
        namePatterns |-> << <<"i", "c", "o", "n">>,
                            <<"g", "l", "y", "p", "h">>,
                            <<"s", "y", "m", "b", "o", "l">> >>],
       [name |-> "Card",
        nodeTypes |-> {"FRAME", "COMPONENT", "INSTANCE"},
        namePatterns |-> << <<"c", "a", "r", "d">>,
                            <<"t", "i", "l", "e">>,
                            <<"c", "o", "n", "t", "a", "i", "n", "e", "r">> >>],
       [name |-> "Typography",
        nodeTypes |-> {"TEXT"},
        namePatterns |-> << <<"t", "e", "x", "t">>,
                            <<"h", "e", "a", "d", "i", "n", "g">>,
                            <<"t", "i", "t", "l", "e">>,
                            <<"l", "a", "b", "e", "l">>,
                            <<"p", "a", "r", "a", "g", "r", "a", "p", "h">> >>] >>

\* whether category t accepts node n
TypeMatches(t, n) ==
    /\ doc[n].type \in t.nodeTypes
    /\ \E i \in DOMAIN t.namePatterns :
          includes(toLowerCase(doc[n].name), toLowerCase(t.namePatterns[i]))

\* A variant in which the last matching category wins; C17 tells it from
\* detectComponentType.
detectComponentTypeLast(n) ==
    IF \E i \in DOMAIN COMPONENT_TYPES : TypeMatches(COMPONENT_TYPES[i], n)
    THEN LET last == CHOOSE i \in DOMAIN COMPONENT_TYPES :
                        /\ TypeMatches(COMPONENT_TYPES[i], n)
                        /\ \A j \in DOMAIN COMPONENT_TYPES :
                              j > i => ~TypeMatches(COMPONENT_TYPES[j], n)
         IN COMPONENT_TYPES[last].name
    ELSE "Unknown"

detectComponentType(n) ==
    IF \E i \in DOMAIN COMPONENT_TYPES : TypeMatches(COMPONENT_TYPES[i], n)
    THEN LET first == CHOOSE i \in DOMAIN COMPONENT_TYPES :
                        /\ TypeMatches(COMPONENT_TYPES[i], n)
                        /\ \A j \in 1..(i - 1) : ~TypeMatches(COMPONENT_TYPES[j], n)
         IN COMPONENT_TYPES[first].name
    ELSE "Unknown"

\* A variant that reads the node's own flag only; C18 tells it from
\* isNodeVisible.
isNodeVisibleOwn(current) == current = Null \/ doc[current].visible

RECURSIVE isNodeVisible(_)
\* walks node, parent, parent's parent, ... until the chain ends
isNodeVisible(current) ==
    IF current = Null THEN TRUE
    ELSE IF ~doc[current].visible THEN FALSE
    ELSE isNodeVisible(doc[current].parent)

RECURSIVE collectAllNodes(_), CollectChildren(_)
collectAllNodes(root) ==
    IF ~isNodeVisible(root) THEN <<>>
    ELSE <<root>> \o (IF doc[root].hasChildren
                      THEN CollectChildren(doc[root].children)
                      ELSE <<>>)
\* children.forEach(recurse)
CollectChildren(cs) ==
    IF cs = <<>> THEN <<>>
    ELSE collectAllNodes(Head(cs)) \o CollectChildren(Tail(cs))

\* componentType "" stands for the default argument null
RECURSIVE getComponentsOfType(_, _), TraverseChildren(_, _)
getComponentsOfType(rootNode, componentType) ==
    IF ~isNodeVisible(rootNode) THEN <<>>
    ELSE (IF componentType = "" \/ detectComponentType(rootNode) = componentType
          THEN <<rootNode>> ELSE <<>>)
         \o (IF doc[rootNode].hasChildren
             THEN TraverseChildren(doc[rootNode].children, componentType)
             ELSE <<>>)
TraverseChildren(cs, componentType) ==
    IF cs = <<>> THEN <<>>
    ELSE getComponentsOfType(Head(cs), componentType)
         \o TraverseChildren(Tail(cs), componentType)

-----------------------------------------------------------------------------
(* extractStylePatterns                                                    *)

RECURSIVE SubtreesOf(_)
\* the nodes visited by the two nested loops, in order
SubtreesOf(components) ==
    IF components = <<>> THEN <<>>
    ELSE collectAllNodes(Head(components)) \o SubtreesOf(Tail(components))

RECURSIVE SolidHexes(_)
\* the hex colours of the SOLID paints of a paint list
SolidHexes(ps) ==
    IF ps = <<>> THEN <<>>
    ELSE (IF Head(ps).type = "SOLID" THEN <<rgbToHex(Head(ps).color)>> ELSE <<>>)
         \o SolidHexes(Tail(ps))

\* 'fills' in node, Array.isArray(fills): the paints looked at
FillsOf(n) == IF doc[n].fills.kind = "array" THEN doc[n].fills.paints ELSE <<>>

RECURSIVE NodeHexes(_)
NodeHexes(ns) ==
    IF ns = <<>> THEN <<>>
    ELSE SolidHexes(FillsOf(Head(ns))) \o NodeHexes(Tail(ns))

RECURSIVE NodeRadii(_)
\* every cornerRadius value of the nodes that have the attribute
NodeRadii(ns) ==
    IF ns = <<>> THEN <<>> ELSE doc[Head(ns)].cornerRadius \o NodeRadii(Tail(ns))

RECURSIVE NumericOnlyTruthy(_)
\* A variant that keeps the truthy numbers only (filter(r => r)); C16 tells
\* it from NumericOnly.
NumericOnlyTruthy(vs) ==
    IF vs = <<>> THEN <<>>
    ELSE (IF IsNumber(Head(vs)) /\ Head(vs).v # 0 THEN <<Head(vs).v>> ELSE <<>>)
         \o NumericOnlyTruthy(Tail(vs))

RECURSIVE NumericOnly(_)
\* filter(r => typeof r === 'number'), as plain integers
NumericOnly(vs) ==
    IF vs = <<>> THEN <<>>
    ELSE (IF IsNumber(Head(vs)) THEN <<Head(vs).v>> ELSE <<>>) \o NumericOnly(Tail(vs))

RECURSIVE NodePads(_)
NodePads(ns) ==
    IF ns = <<>> THEN <<>> ELSE doc[Head(ns)].padding \o NodePads(Tail(ns))

\* JSON.parse(JSON.stringify(v)) of a property value: a symbol is dropped
JsonRoundTrip(v) == IF IsNumber(v) THEN v ELSE Undefined

RECURSIVE LoadedSignaturesAbort(_, _)
\* A variant in which a rejected font load ends the collection of
\* signatures; C14 tells it from LoadedSignatures.
LoadedSignaturesAbort(ns, failed) ==
    IF ns = <<>> THEN <<>>
    ELSE LET n == Head(ns)
         IN IF doc[n].type = "TEXT" /\ n \in failed THEN <<>>
            ELSE (IF doc[n].type = "TEXT" /\ doc[n].fontName.kind = "object"
                  THEN << [family |-> doc[n].fontName.family,
                           style |-> doc[n].fontName.style,
                           size |-> JsonRoundTrip(doc[n].fontSize)] >>
                  ELSE <<>>)
                 \o LoadedSignaturesAbort(Tail(ns), failed)

RECURSIVE LoadedSignatures(_, _)
\* the signatures added inside try { await loadFontAsync ... }; `failed` are
\* the text nodes whose font load rejects
LoadedSignatures(ns, failed) ==
    IF ns = <<>> THEN <<>>
    ELSE LET n == Head(ns)
         IN (IF /\ doc[n].type = "TEXT"
                /\ n \notin failed
                /\ doc[n].fontName.kind = "object"
             THEN << [family |-> doc[n].fontName.family,
                      style |-> doc[n].fontName.style,
                      size |-> JsonRoundTrip(doc[n].fontSize)] >>
             ELSE <<>>)
            \o LoadedSignatures(Tail(ns), failed)

extractStylePatterns(components, failed) ==
    LET visited == SubtreesOf(components)
        numericCornerRadii == NumericOnly(NodeRadii(visited))
    IN [colorPalette |-> Dedup(NodeHexes(visited)),
        cornerRadiusRange |-> RangeOf(numericCornerRadii),
        typographyStyles |-> Dedup(LoadedSignatures(visited, failed)),
        spacingValues |-> RangeOf(NodePads(visited)),
        components |-> <<>>]

-----------------------------------------------------------------------------
(* calculateHarmony, the branch taken when baselineMode is true            *)

\* A raw (unrounded) category score is the rational n/d.
Frac(n, d) == [n |-> n, d |-> d]

\* A variant that counts each distinct colour of the component once; C9
\* tells it from ColorScore.
ColorScoreDistinct(allNodes, patterns) ==
    LET fills == Dedup(NodeHexes(allNodes))
        hits == SelectSeq(fills, LAMBDA c : c \in Range(patterns.colorPalette))
    IN IF Len(fills) > 0 THEN Frac(100 * Len(hits), Len(fills)) ELSE Frac(50, 1)

\* lines 172-179
ColorScore(allNodes, patterns) ==
    LET fills == NodeHexes(allNodes)
        hits == SelectSeq(fills, LAMBDA c : c \in Range(patterns.colorPalette))
    IN IF Len(fills) > 0 THEN Frac(100 * Len(hits), Len(fills)) ELSE Frac(50, 1)

HasVisiblePaint(p) ==
    p.kind = "array" /\ \E i \in DOMAIN p.paints : p.paints[i].visible

\* lines 184-197: the filter of visualContainers
IsVisualContainer(n) ==
    /\ doc[n].cornerRadius # <<>>
    /\ HasVisiblePaint(doc[n].fills) \/ HasVisiblePaint(doc[n].strokes)

Area(n) == doc[n].width * doc[n].height

\* lines 198-203 and 220: the head of the list after the stable sort by
\* descending area
PrimaryContainer(vc) ==
    vc[CHOOSE i \in DOMAIN vc :
          /\ \A j \in DOMAIN vc : Area(vc[j]) <= Area(vc[i])
          /\ \A j \in 1..(i - 1) : Area(vc[j]) < Area(vc[i])]

\* line 221: primaryContainer.cornerRadius || 0
RadiusOrZero(n) == Head(doc[n].cornerRadius)

\* A variant without the Math.max(0, ...) of line 235; C7 tells it from
\* GradedShape.
GradedShapeUnclamped(r, range) ==
    IF ExtLeq(range.min, Fin(r)) /\ ExtLeq(Fin(r), range.max)
    THEN Frac(100, 1)
    ELSE IF range.max.inf # 0
         THEN Frac(100, 1)
         ELSE LET difference == Abs(r * range.avg.d - range.avg.n)
                  maxDifference == MaxInt(range.max.v * range.avg.d - range.avg.n,
                                          range.avg.n - range.min.v * range.avg.d)
              IN IF maxDifference = 0
                 THEN Frac(-100 * difference, 1)
                 ELSE Frac(100 * (maxDifference - difference), maxDifference)

\* lines 224-236 for a numeric radius r
GradedShape(r, range) ==
    IF ExtLeq(range.min, Fin(r)) /\ ExtLeq(Fin(r), range.max)
    THEN Frac(100, 1)
    ELSE IF range.max.inf # 0
         \* maxDifference is -Infinity: difference / maxDifference is -0
         THEN Frac(100, 1)
         ELSE LET difference == Abs(r * range.avg.d - range.avg.n)
                  maxDifference == MaxInt(range.max.v * range.avg.d - range.avg.n,
                                          range.avg.n - range.min.v * range.avg.d)
              IN IF maxDifference = 0 \/ difference >= maxDifference
                 \* Math.max(0, ...), with x / 0 = Infinity
                 THEN Frac(0, 1)
                 ELSE Frac(100 * (maxDifference - difference), maxDifference)

\* the comparison of line 224 converts a symbol to a number: TypeError
ShapeThrows(allNodes) ==
    LET vc == SelectSeq(allNodes, IsVisualContainer)
    IN Len(vc) > 0 /\ ~IsNumber(RadiusOrZero(PrimaryContainer(vc)))

\* A variant that scores 0 when there is no visual container; C5 tells it
\* from ShapeScore.
ShapeScoreStrict(allNodes, patterns) ==
    LET vc == SelectSeq(allNodes, IsVisualContainer)
    IN IF Len(vc) > 0
       THEN GradedShape(RadiusOrZero(PrimaryContainer(vc)).v, patterns.cornerRadiusRange)
       ELSE Frac(0, 1)

\* lines 208-237
ShapeScore(allNodes, patterns) ==
    LET vc == SelectSeq(allNodes, IsVisualContainer)
    IN IF Len(vc) > 0
       THEN GradedShape(RadiusOrZero(PrimaryContainer(vc)).v, patterns.cornerRadiusRange)
       ELSE Frac(50, 1)

IsText(n) == doc[n].type = "TEXT"

\* A variant that scores the last text node of the subtree; C19 tells it
\* from ScoredText.
ScoredTextLast(allNodes) ==
    LET texts == SelectSeq(allNodes, IsText)
    IN IF texts # <<>> /\ doc[texts[Len(texts)]].fontName.kind = "object"
       THEN <<texts[Len(texts)]>> ELSE <<>>

\* line 241-242: the text node whose font is scored; <<>> when the condition
\* of the if fails
ScoredText(allNodes) ==
    LET texts == SelectSeq(allNodes, IsText)
    IN IF texts # <<>> /\ doc[Head(texts)].fontName.kind = "object"
       THEN <<Head(texts)>> ELSE <<>>

\* Math.abs(Number(s.size) - size) <= 2; NaN for an undefined size
SizeClose(s, size) == IsNumber(s.size) /\ Abs(s.size.v - size) <= 2

FamilyMatches(styles, text) ==
    SelectSeq(styles, LAMBDA s : s.family = doc[text].fontName.family)

StyleMatches(styles, text) ==
    SelectSeq(FamilyMatches(styles, text), LAMBDA s : s.style = doc[text].fontName.style)

\* Number(symbol) is a TypeError: of the target's font size (line 243), or of
\* a pattern size reached by some() before a match (line 250)
TypographyThrows(allNodes, patterns) ==
    LET st == ScoredText(allNodes)
    IN /\ st # <<>>
       /\ \/ doc[Head(st)].fontSize.kind = "symbol"
          \/ LET sm == StyleMatches(patterns.typographyStyles, Head(st))
                 size == doc[Head(st)].fontSize.v
             IN \E i \in DOMAIN sm :
                   /\ sm[i].size.kind = "symbol"
                   /\ \A j \in 1..(i - 1) : ~SizeClose(sm[j], size)

\* A variant that gives the family, style and size credits independently of
\* each other; C10 tells it from TypographyScore.
TypographyScoreUngated(allNodes, patterns) ==
    LET st == ScoredText(allNodes)
        styles == patterns.typographyStyles
    IN IF st = <<>> THEN 0
       ELSE LET text == Head(st)
                size == doc[text].fontSize.v
            IN (IF FamilyMatches(styles, text) = <<>> THEN 0 ELSE 60)
               + (IF \E i \in DOMAIN styles : styles[i].style = doc[text].fontName.style
                  THEN 20 ELSE 0)
               + (IF \E i \in DOMAIN styles : SizeClose(styles[i], size)
                  THEN 20 ELSE 0)

\* lines 240-255
TypographyScore(allNodes, patterns) ==
    LET st == ScoredText(allNodes)
    IN IF st = <<>> THEN 0
       ELSE LET text == Head(st)
                size == doc[text].fontSize.v
                famMatches == FamilyMatches(patterns.typographyStyles, text)
                styleMatches == StyleMatches(patterns.typographyStyles, text)
            IN IF famMatches = <<>> THEN 0
               ELSE 60 + (IF styleMatches = <<>> THEN 0
                          ELSE 20 + (IF \E i \in DOMAIN styleMatches :
                                           SizeClose(styleMatches[i], size)
                                     THEN 20 ELSE 0))

\* A variant that leaves out the paddings equal to the pattern's minimum or
\* maximum; C11 tells it from SpacingScore.
SpacingScoreExclusive(component, patterns) ==
    LET pads == doc[component].padding
        inRange == SelectSeq(pads, LAMBDA x :
                       /\ ExtLeq(patterns.spacingValues.min, Fin(x))
                       /\ ExtLeq(Fin(x), patterns.spacingValues.max)
                       /\ patterns.spacingValues.min # Fin(x)
                       /\ patterns.spacingValues.max # Fin(x))
    IN IF pads # <<>> THEN Frac(100 * Len(inRange), Len(pads)) ELSE Frac(0, 1)

\* lines 258-263
SpacingScore(component, patterns) ==
    LET pads == doc[component].padding
        inRange == SelectSeq(pads, LAMBDA x :
                       /\ ExtLeq(patterns.spacingValues.min, Fin(x))
                       /\ ExtLeq(Fin(x), patterns.spacingValues.max))
    IN IF pads # <<>> THEN Frac(100 * Len(inRange), Len(pads)) ELSE Frac(0, 1)

\* The weighted sum of line 265 is evaluated in IEEE-754 doubles. For the raw
\* scores (2/3)*100, 0, 0, 50 the double sum is 27.499999999999996, below the
\* tie 27.5 of the exact sum; for every other raw score of the documents
\* below the double sum rounds as the exact sum does.
RoundsBelowTie(c, s, t, p) ==
    /\ 3 * c.n = 200 * c.d
    /\ s.n = 0
    /\ t = 0
    /\ p.n = 50 * p.d

\* A variant that weights the rounded category scores; C3 tells it from
\* OverallScore.
OverallScoreOfRounded(c, s, t, p) ==
    MathRound(30 * MathRound(c.n, c.d) + 30 * MathRound(s.n, s.d)
                + 25 * t + 15 * MathRound(p.n, p.d), 100)

\* line 265: Math.round(c * 0.3 + s * 0.3 + t * 0.25 + p * 0.15) of the raw
\* category scores c, s, p (rationals) and t (an integer)
OverallScore(c, s, t, p) ==
    LET num == 30 * c.n * s.d * p.d + 30 * s.n * c.d * p.d
                 + 25 * t * c.d * s.d * p.d + 15 * p.n * c.d * s.d
        den == 100 * c.d * s.d * p.d
    IN IF RoundsBelowTie(c, s, t, p) THEN MathRound(num, den) - 1
       ELSE MathRound(num, den)

\* the unrounded category scores of lines 177, 208-237, 240-255, 259-263
RawScores(component, patterns) ==
    LET allNodes == collectAllNodes(component)
    IN [color |-> ColorScore(allNodes, patterns),
        shape |-> ShapeScore(allNodes, patterns),
        typography |-> TypographyScore(allNodes, patterns),
        spacing |-> SpacingScore(component, patterns)]

Thrown == [kind |-> "throw", colorScore |-> 0, shapeScore |-> 0,
           typographyScore |-> 0, spacingScore |-> 0, overallScore |-> 0]

\* lines 169-272
BaselineBranch(component, patterns) ==
    LET allNodes == collectAllNodes(component)
    IN IF ShapeThrows(allNodes) \/ TypographyThrows(allNodes, patterns)
       THEN Thrown
       ELSE LET raw == RawScores(component, patterns)
            IN [kind |-> "score",
                colorScore |-> MathRound(raw.color.n, raw.color.d),
                shapeScore |-> MathRound(raw.shape.n, raw.shape.d),
                typographyScore |-> raw.typography,
                spacingScore |-> MathRound(raw.spacing.n, raw.spacing.d),
                overallScore |-> OverallScore(raw.color, raw.shape,
                                              raw.typography, raw.spacing)]

-----------------------------------------------------------------------------
(* calculateHarmony, the branch taken when baselineMode is false           *)

RECURSIVE RawSignatures(_)
\* lines 301-310: one signature per text node, fonts not loaded, a mixed
\* font name reading as undefined family and style
RawSignatures(ns) ==
    IF ns = <<>> THEN <<>>
    ELSE LET n == Head(ns)
         IN (IF doc[n].type = "TEXT"
             THEN << [family |-> doc[n].fontName.family,
                      style |-> doc[n].fontName.style,
                      size |-> doc[n].fontSize] >>
             ELSE <<>>)
            \o RawSignatures(Tail(ns))

\* lines 277-325; allNodes are the visible nodes of the component being scored
extractPatternsFromSingleNode(node, allNodes) ==
    [colorPalette |-> NodeHexes(collectAllNodes(node)),
     cornerRadiusRange |-> RangeOf(NumericOnly(NodeRadii(allNodes))),
     typographyStyles |-> RawSignatures(collectAllNodes(node)),
     spacingValues |-> RangeOf(NodePads(collectAllNodes(node))),
     components |-> <<>>]

\* the score of the component against each pattern component, in order
PerComponentScores(component, components) ==
    [i \in DOMAIN components |->
        BaselineBranch(component,
            extractPatternsFromSingleNode(components[i], collectAllNodes(component)))]

\* lines 327-335: the first score of the highest overallScore
BestScore(scores) ==
    scores[CHOOSE i \in DOMAIN scores :
              /\ \A j \in DOMAIN scores : scores[j].overallScore <= scores[i].overallScore
              /\ \A j \in 1..(i - 1) : scores[j].overallScore < scores[i].overallScore]

ZeroScore == [kind |-> "score", colorScore |-> 0, shapeScore |-> 0,
              typographyScore |-> 0, spacingScore |-> 0, overallScore |-> 0]

\* A variant that scores the component once against the aggregate summary;
\* C1 tells it from ComponentMatchBranch.
ComponentMatchBranchAggregate(component, patterns) ==
    BaselineBranch(component, patterns)

\* lines 274-344
ComponentMatchBranch(component, patterns) ==
    LET scores == PerComponentScores(component, patterns.components)
    IN IF \E i \in DOMAIN scores : scores[i].kind = "throw" THEN Thrown
       ELSE IF scores = <<>> THEN ZeroScore
       ELSE BestScore(scores)

\* lines 161-166: the template literal of line 165 converts the parent's
\* cornerRadius to a string, a TypeError for figma.mixed
ParentLogThrows(component) ==
    /\ doc[component].parent # Null
    /\ doc[doc[component].parent].cornerRadius # <<>>
    /\ ~IsNumber(Head(doc[doc[component].parent].cornerRadius))

\* A variant that compares with each pattern component and keeps the best
\* score in either mode; C15 tells it from calculateHarmony.
calculateHarmonyBestOf(component, patterns, baselineMode) ==
    IF ParentLogThrows(component) THEN Thrown
    ELSE ComponentMatchBranch(component, patterns)

calculateHarmony(component, patterns, baselineMode) ==
    IF ParentLogThrows(component) THEN Thrown
    ELSE IF baselineMode THEN BaselineBranch(component, patterns)
    ELSE ComponentMatchBranch(component, patterns)

-----------------------------------------------------------------------------
(* The documents the model checks                                          *)

TargetRadii == {Num(0), Num(6), Num(12), MixedVal}
TargetFills == {Paints(<<>>), Paints(<<Solid(White)>>),
                Paints(<<Solid(White), Solid(White)>>),
                Paints(<<Solid(Black), HiddenSolid(Other)>>)}
BackgroundFills == {Paints(<<Solid(Other)>>), Paints(<<Gradient>>), MixedPaints}
TargetFonts == {Font("Inter", "Bold"), Font("Inter", "Regular"),
                Font("Arial", "Bold"), MixedFont}
TargetSizes == {Num(16), Num(17), MixedVal}
TargetPaddings == {<<8, 8, 4, 20>>, <<4, 4, 16, 16>>, <<0, 20, 4, 40>>}

\* the document with the attributes of the component to check chosen
MakeDoc(r, f, bf, bw, fn, fs, pd) ==
    [BaseDoc EXCEPT ![6].cornerRadius = <<r>>,
                    ![6].fills = f,
                    ![7].fills = bf,
                    ![7].width = bw,
                    ![8].fontName = fn,
                    ![8].fontSize = fs,
                    ![6].padding = pd]

WideDocs ==
    {MakeDoc(r, f, bf, bw, fn, fs, pd) :
        r \in TargetRadii, f \in TargetFills, bf \in BackgroundFills,
        bw \in {3, 9}, fn \in TargetFonts, fs \in TargetSizes,
        pd \in TargetPaddings}

-----------------------------------------------------------------------------
(* The session                                                             *)

NoScan == [status |-> "none"]
NoCall == [status |-> "idle"]

SessionInit ==
    /\ selection = <<>>
    /\ controlNode = Null
    /\ referenceNode = Null
    /\ tasks = <<>>
    /\ posted = <<>>
    /\ controlSet = FALSE
    /\ referenceSet = FALSE
    /\ notices = <<>>
    /\ lastToggle = FALSE
    /\ lastScan = NoScan
    /\ call = NoCall

sessionVars == <<selection, controlNode, referenceNode, storage, tasks, posted,
                 controlSet, referenceSet, notices, lastToggle, lastScan>>

\* the nodes the user selects in the session
Selectable == {1, 6, 8}
Selections == {<<>>} \cup {<<n>> : n \in Selectable}

\* the component to check, every radius of it inside or outside the library's,
\* and the library with its second button hidden
NarrowDoc(r) ==
    [MakeDoc(r, Paints(<<Solid(White)>>), Paints(<<Solid(Other)>>), 3,
             Font("Inter", "Bold"), Num(16), <<4, 4, 16, 16>>)
        EXCEPT ![7].cornerRadius = <<r>>]
NarrowDocs ==
    {NarrowDoc(Num(6)), NarrowDoc(Num(12)),
     [NarrowDoc(Num(12)) EXCEPT ![3].visible = FALSE]}

\* figma.clientStorage outlives the plugin: a session may start with the ids
\* an earlier session stored
Init ==
    /\ doc \in NarrowDocs
    /\ SessionInit
    /\ storage \in [controlNodeId : {Null, 1}, referenceNodeId : {Null, 6}]

\* ui.html:399-417, window.onmessage, for the messages ps
PanelReceives(ps) ==
    /\ controlSet' = (controlSet \/ \E i \in DOMAIN ps : ps[i].type = "control-set")
    /\ referenceSet' = (referenceSet \/ \E i \in DOMAIN ps : ps[i].type = "reference-set")

\* What one step of the handler shows: its figma.notify calls, the messages
\* it posts with figma.ui.postMessage (the panel handles them at once), and
\* the run-scan it belongs to.
Observed(ns, ps, scan) ==
    /\ notices' = ns
    /\ posted' = ps
    /\ lastScan' = scan
    /\ PanelReceives(ps)

\* the handler is suspended at an await
Suspend(t) == tasks' = Append(tasks, t)
RemoveAt(s, i) == SubSeq(s, 1, i - 1) \o SubSeq(s, i + 1, Len(s))
Finish(i) == tasks' = RemoveAt(tasks, i)
Continue(i, t) == tasks' = [tasks EXCEPT ![i] = t]

\* line 356-359: the flag is a local of one invocation of the handler
useReferenceAsBaseline(msg) ==
    IF msg.type = "toggle-baseline" THEN msg.value ELSE FALSE

\* lines 357-359
ToggleBaseline(value) ==
    /\ lastToggle' = value
    /\ Observed(<<>>, <<>>, NoScan)
    /\ UNCHANGED <<doc, selection, controlNode, referenceNode, storage, tasks, call>>

\* A variant in which a set-control without a selection forgets the design
\* library; C22 tells it from SetControl.
SetControlClearing(sel) ==
    /\ selection' = sel
    /\ IF Len(sel) > 0
       THEN /\ controlNode' = sel[1]
            /\ storage' = [storage EXCEPT !.controlNodeId = sel[1]]
            /\ Suspend([type |-> "set-control", pc |-> "export"])
            /\ Observed(<<>>, <<>>, NoScan)
       ELSE /\ controlNode' = Null
            /\ storage' = [storage EXCEPT !.controlNodeId = Null]
            /\ Observed(<<"select-first">>, <<>>, NoScan)
            /\ UNCHANGED tasks
    /\ UNCHANGED <<doc, referenceNode, lastToggle, call>>

\* lines 360-371, up to the first await; sel is the page selection the user
\* has made by then
SetControl(sel) ==
    /\ selection' = sel
    /\ IF Len(sel) > 0
       THEN /\ controlNode' = sel[1]
            /\ storage' = [storage EXCEPT !.controlNodeId = sel[1]]
            /\ Suspend([type |-> "set-control", pc |-> "export"])
            /\ Observed(<<>>, <<>>, NoScan)
       ELSE /\ Observed(<<"select-first">>, <<>>, NoScan)
            /\ UNCHANGED <<controlNode, storage, tasks>>
    /\ UNCHANGED <<doc, referenceNode, lastToggle, call>>

\* lines 364-367: controlNode is read again after each await
ResumeSetControl(i) ==
    /\ tasks[i].type = "set-control"
    /\ IF controlNode = Null
       THEN \* TypeError on controlNode.exportAsync / controlNode.name
            Finish(i) /\ Observed(<<>>, <<>>, NoScan)
       ELSE IF tasks[i].pc = "export"
       THEN /\ Continue(i, [tasks[i] EXCEPT !.pc = "post"])
            /\ Observed(<<>>, <<>>, NoScan)
       ELSE /\ Observed(<<"control-set">>,
                        <<[type |-> "control-set", name |-> doc[controlNode].name]>>,
                        NoScan)
            /\ Finish(i)
    /\ UNCHANGED <<doc, selection, controlNode, referenceNode, storage,
                   lastToggle, call>>

\* lines 372-383, up to the first await
SetReference(sel) ==
    /\ selection' = sel
    /\ IF Len(sel) > 0
       THEN /\ referenceNode' = sel[1]
            /\ storage' = [storage EXCEPT !.referenceNodeId = sel[1]]
            /\ Suspend([type |-> "set-reference", pc |-> "export"])
            /\ Observed(<<>>, <<>>, NoScan)
       ELSE /\ Observed(<<"select-first">>, <<>>, NoScan)
            /\ UNCHANGED <<referenceNode, storage, tasks>>
    /\ UNCHANGED <<doc, controlNode, lastToggle, call>>

\* lines 376-379
ResumeSetReference(i) ==
    /\ tasks[i].type = "set-reference"
    /\ IF referenceNode = Null
       THEN Finish(i) /\ Observed(<<>>, <<>>, NoScan)
       ELSE IF tasks[i].pc = "export"
       THEN /\ Continue(i, [tasks[i] EXCEPT !.pc = "post"])
            /\ Observed(<<>>, <<>>, NoScan)
       ELSE /\ Observed(<<"reference-set">>,
                        <<[type |-> "reference-set", name |-> doc[referenceNode].name]>>,
                        NoScan)
            /\ Finish(i)
    /\ UNCHANGED <<doc, selection, controlNode, referenceNode, storage,
                   lastToggle, call>>

\* what a run-scan did, for the properties below
ScanRecord(status, scan, failed, patterns, harmony) ==
    [status |-> status, scan |-> scan, failed |-> failed,
     patterns |-> patterns, harmony |-> harmony]

NoPatterns == extractStylePatterns(<<>>, {})

\* the nodes a font is loaded for
TextNodes == {n \in Nodes : IsText(n)}

\* the text nodes whose fonts extractStylePatterns loads (line 110)
TextsOf(components) == {n \in Range(SubtreesOf(components)) : IsText(n)}

\* A variant that reads controlNode and referenceNode again after the font
\* loads; C20 tells it from CompleteScan.
CompleteScanRereading(scan, failed) ==
    IF controlNode = Null \/ referenceNode = Null
    THEN Observed(<<>>, <<>>, ScanRecord("threw", scan, failed, NoPatterns, Thrown))
    ELSE LET flag == scan.useReferenceAsBaseline
             referenceType == detectComponentType(referenceNode)
             patternSource == IF flag THEN referenceNode ELSE controlNode
             testTarget == IF flag THEN controlNode ELSE referenceNode
             patternComponents == IF flag THEN getComponentsOfType(patternSource, "")
                                  ELSE getComponentsOfType(patternSource, referenceType)
             extracted == extractStylePatterns(patternComponents, failed)
             stylePatterns == IF ~flag
                              THEN [extracted EXCEPT !.components = patternComponents]
                              ELSE extracted
             harmonyScore == calculateHarmony(testTarget, stylePatterns, flag)
         IN IF harmonyScore.kind = "throw"
            THEN Observed(<<>>, <<>>,
                          ScanRecord("threw", scan, failed, stylePatterns, harmonyScore))
            ELSE Observed(<<"complete">>,
                          <<[type |-> "scan-result", success |-> TRUE,
                             componentType |-> referenceType,
                             patterns |-> stylePatterns, harmony |-> harmonyScore]>>,
                          ScanRecord("done", scan, failed, stylePatterns, harmonyScore))

\* lines 409-423: extraction, scoring and the result message; `failed` are
\* the text nodes whose font load was rejected
CompleteScan(scan, failed) ==
    LET extracted == extractStylePatterns(scan.patternComponents, failed)
        stylePatterns == IF ~scan.useReferenceAsBaseline
                         THEN [extracted EXCEPT !.components = scan.patternComponents]
                         ELSE extracted
        harmonyScore == calculateHarmony(scan.testTarget, stylePatterns,
                                         scan.useReferenceAsBaseline)
    IN IF harmonyScore.kind = "throw"
       THEN \* the handler's promise rejects: nothing is posted
            Observed(<<>>, <<>>,
                     ScanRecord("threw", scan, failed, stylePatterns, harmonyScore))
       ELSE Observed(<<"complete">>,
                     <<[type |-> "scan-result", success |-> TRUE,
                        componentType |-> scan.referenceType,
                        patterns |-> stylePatterns, harmony |-> harmonyScore]>>,
                     ScanRecord("done", scan, failed, stylePatterns, harmonyScore))

\* A variant that answers a run-scan without both nodes with a failure
\* result; C13 tells it from MissingInput.
MissingInputReported(scan) ==
    /\ Observed(<<>>,
                <<[type |-> "scan-result", success |-> FALSE, message |-> "Unknown"]>>,
                ScanRecord("missing-input", scan, {}, NoPatterns, ZeroScore))
    /\ UNCHANGED tasks

\* lines 385-388: the notice, and the return
MissingInput(scan) ==
    /\ Observed(<<"set-both">>, <<>>,
                ScanRecord("missing-input", scan, {}, NoPatterns, ZeroScore))
    /\ UNCHANGED tasks

\* A variant that scores the target against the summary of no component;
\* C12 tells it from NoComponentsFound.
NoComponentsScored(scan) ==
    /\ CompleteScan(scan, {})
    /\ UNCHANGED tasks

\* lines 400-407: the failure result naming the type looked for, and the
\* return
NoComponentsFound(scan) ==
    /\ Observed(<<>>,
                <<[type |-> "scan-result", success |-> FALSE,
                   message |-> scan.referenceType]>>,
                ScanRecord("empty", scan, {}, NoPatterns, ZeroScore))
    /\ UNCHANGED tasks

\* lines 384-409, up to the first font load
RunScan ==
    LET msg == [type |-> "run-scan"]
        flag == useReferenceAsBaseline(msg)
        missing == controlNode = Null \/ referenceNode = Null
        referenceType == detectComponentType(referenceNode)
        patternSource == IF flag THEN referenceNode ELSE controlNode
        testTarget == IF flag THEN controlNode ELSE referenceNode
        patternComponents == IF flag THEN getComponentsOfType(patternSource, "")
                             ELSE getComponentsOfType(patternSource, referenceType)
        scan == [toggled |-> lastToggle,
                 useReferenceAsBaseline |-> flag,
                 controlNode |-> controlNode,
                 referenceNode |-> referenceNode,
                 referenceType |-> IF missing THEN "" ELSE referenceType,
                 patternSource |-> IF missing THEN Null ELSE patternSource,
                 testTarget |-> IF missing THEN Null ELSE testTarget,
                 patternComponents |-> IF missing THEN <<>> ELSE patternComponents]
    IN /\ IF missing
          THEN MissingInput(scan)
          ELSE IF Len(patternComponents) = 0
          THEN NoComponentsFound(scan)
          ELSE IF TextsOf(patternComponents) # {}
          THEN \* suspended on figma.loadFontAsync
               /\ Suspend([type |-> "run-scan", pc |-> "extract", scan |-> scan])
               /\ Observed(<<>>, <<>>,
                           ScanRecord("extracting", scan, {}, NoPatterns, ZeroScore))
          ELSE CompleteScan(scan, {}) /\ UNCHANGED tasks
       /\ UNCHANGED <<doc, selection, controlNode, referenceNode, storage,
                      lastToggle, call>>

ResumeRunScan(i, failed) ==
    /\ tasks[i].type = "run-scan"
    /\ failed \subseteq TextsOf(tasks[i].scan.patternComponents)
    /\ CompleteScan(tasks[i].scan, failed)
    /\ Finish(i)
    /\ UNCHANGED <<doc, selection, controlNode, referenceNode, storage,
                   lastToggle, call>>

\* lines 426-428, up to the first await
RestoreSession ==
    /\ Suspend([type |-> "restore-session", pc |-> "getControlId",
                controlId |-> Null, referenceId |-> Null])
    /\ Observed(<<>>, <<>>, NoScan)
    /\ UNCHANGED <<doc, selection, controlNode, referenceNode, storage,
                   lastToggle, call>>

\* lines 428-437; `found` is whether the host still has the stored node
ResumeRestoreSession(i, found) ==
    /\ tasks[i].type = "restore-session"
    /\ CASE tasks[i].pc = "getControlId" ->
              /\ Continue(i, [tasks[i] EXCEPT !.pc = "getReferenceId",
                                              !.controlId = storage.controlNodeId])
              /\ Observed(<<>>, <<>>, NoScan)
              /\ UNCHANGED <<controlNode, referenceNode>>
         [] tasks[i].pc = "getReferenceId" ->
              /\ IF tasks[i].controlId # Null
                 THEN Continue(i, [tasks[i] EXCEPT !.pc = "findControl",
                                       !.referenceId = storage.referenceNodeId])
                 ELSE IF storage.referenceNodeId # Null
                 THEN Continue(i, [tasks[i] EXCEPT !.pc = "findReference",
                                       !.referenceId = storage.referenceNodeId])
                 ELSE Finish(i)
              /\ Observed(<<>>, <<>>, NoScan)
              /\ UNCHANGED <<controlNode, referenceNode>>
         [] tasks[i].pc = "findControl" ->
              /\ IF found
                 THEN /\ controlNode' = tasks[i].controlId
                      /\ Observed(<<>>,
                                  <<[type |-> "control-set",
                                     name |-> doc[tasks[i].controlId].name]>>,
                                  NoScan)
                 ELSE /\ Observed(<<>>, <<>>, NoScan)
                      /\ UNCHANGED controlNode
              /\ IF tasks[i].referenceId # Null
                 THEN Continue(i, [tasks[i] EXCEPT !.pc = "findReference"])
                 ELSE Finish(i)
              /\ UNCHANGED referenceNode
         [] tasks[i].pc = "findReference" ->
              /\ IF found
                 THEN /\ referenceNode' = tasks[i].referenceId
                      /\ Observed(<<>>,
                                  <<[type |-> "reference-set",
                                     name |-> doc[tasks[i].referenceId].name]>>,
                                  NoScan)
                 ELSE /\ Observed(<<>>, <<>>, NoScan)
                      /\ UNCHANGED referenceNode
              /\ Finish(i)
              /\ UNCHANGED controlNode
    /\ UNCHANGED <<doc, selection, storage, lastToggle, call>>

\* lines 440-454, up to the await
FocusNode(nodeId) ==
    LET node == IF nodeId = "control" THEN controlNode ELSE referenceNode
    IN /\ IF node = Null
          THEN /\ Suspend([type |-> "focus-node", pc |-> "getId", nodeId |-> nodeId])
               /\ Observed(<<>>, <<>>, NoScan)
               /\ UNCHANGED selection
          ELSE /\ selection' = <<node>>
               /\ Observed(<<"focused">>, <<>>, NoScan)
               /\ UNCHANGED tasks
       /\ UNCHANGED <<doc, controlNode, referenceNode, storage, lastToggle, call>>

\* lines 444-453
ResumeFocusNode(i, found) ==
    /\ tasks[i].type = "focus-node"
    /\ LET id == IF tasks[i].nodeId = "control" THEN storage.controlNodeId
                 ELSE storage.referenceNodeId
           node == IF id # Null /\ found THEN id ELSE Null
       IN IF node # Null
          THEN selection' = <<node>> /\ Observed(<<"focused">>, <<>>, NoScan)
          ELSE Observed(<<"not-found">>, <<>>, NoScan) /\ UNCHANGED selection
    /\ Finish(i)
    /\ UNCHANGED <<doc, controlNode, referenceNode, storage, lastToggle, call>>

\* lines 455-457, up to the first await
Reset ==
    /\ controlNode' = Null
    /\ referenceNode' = Null
    /\ storage' = [storage EXCEPT !.controlNodeId = Null]
    /\ Suspend([type |-> "reset", pc |-> "clearReferenceId"])
    /\ Observed(<<>>, <<>>, NoScan)
    /\ UNCHANGED <<doc, selection, lastToggle, call>>

\* lines 458-459
ResumeReset(i) ==
    /\ tasks[i].type = "reset"
    /\ IF tasks[i].pc = "clearReferenceId"
       THEN /\ storage' = [storage EXCEPT !.referenceNodeId = Null]
            /\ Continue(i, [tasks[i] EXCEPT !.pc = "post"])
            /\ Observed(<<>>, <<>>, NoScan)
       ELSE /\ Observed(<<>>, <<[type |-> "reset-complete"]>>, NoScan)
            /\ Finish(i)
            /\ UNCHANGED storage
    /\ UNCHANGED <<doc, selection, controlNode, referenceNode, lastToggle, call>>

\* lines 461-463; nothing follows the await
ClearControl ==
    /\ controlNode' = Null
    /\ storage' = [storage EXCEPT !.controlNodeId = Null]
    /\ Observed(<<>>, <<>>, NoScan)
    /\ UNCHANGED <<doc, selection, referenceNode, tasks, lastToggle, call>>

\* lines 464-466; nothing follows the await
ClearReference ==
    /\ referenceNode' = Null
    /\ storage' = [storage EXCEPT !.referenceNodeId = Null]
    /\ Observed(<<>>, <<>>, NoScan)
    /\ UNCHANGED <<doc, selection, controlNode, tasks, lastToggle, call>>

\* the suspended invocations of the handler are at most MaxInFlight
WithinLimit(ts) == Len(ts) <= MaxInFlight

Next ==
    \/ \E value \in BOOLEAN : ToggleBaseline(value)
    \/ \E sel \in Selections : SetControl(sel) /\ WithinLimit(tasks')
    \/ \E sel \in Selections : SetReference(sel) /\ WithinLimit(tasks')
    \/ RunScan /\ WithinLimit(tasks')
    \/ RestoreSession /\ WithinLimit(tasks')
    \/ \E nodeId \in {"control", "reference"} : FocusNode(nodeId) /\ WithinLimit(tasks')
    \/ Reset /\ WithinLimit(tasks')
    \/ ClearControl
    \/ ClearReference
    \/ \E i \in DOMAIN tasks : ResumeSetControl(i)
    \/ \E i \in DOMAIN tasks : ResumeSetReference(i)
    \/ \E i \in DOMAIN tasks, failed \in SUBSET TextNodes : ResumeRunScan(i, failed)
    \/ \E i \in DOMAIN tasks, found \in BOOLEAN : ResumeRestoreSession(i, found)
    \/ \E i \in DOMAIN tasks, found \in BOOLEAN : ResumeFocusNode(i, found)
    \/ \E i \in DOMAIN tasks : ResumeReset(i)

Spec == Init /\ [][Next]_vars

-----------------------------------------------------------------------------
(* A run-scan together with the messages that change the nodes it reads    *)

\* one document, nothing stored by an earlier session
ScanInit ==
    /\ doc = NarrowDoc(Num(12))
    /\ SessionInit
    /\ storage = [controlNodeId |-> Null, referenceNodeId |-> Null]

IsScanTask(t) == t.type = "run-scan"

\* at most MaxInFlight suspended run-scans and as many suspended other
\* invocations
ScanWithinLimit(ts) ==
    /\ Len(SelectSeq(ts, IsScanTask)) <= MaxInFlight
    /\ Len(ts) - Len(SelectSeq(ts, IsScanTask)) <= MaxInFlight

ScanNext ==
    \/ \E sel \in Selections : SetControl(sel) /\ ScanWithinLimit(tasks')
    \/ \E sel \in Selections : SetReference(sel) /\ ScanWithinLimit(tasks')
    \/ RunScan /\ ScanWithinLimit(tasks')
    \/ Reset /\ ScanWithinLimit(tasks')
    \/ ClearControl
    \/ ClearReference
    \/ \E i \in DOMAIN tasks : ResumeSetControl(i)
    \/ \E i \in DOMAIN tasks : ResumeSetReference(i)
    \/ \E i \in DOMAIN tasks, failed \in SUBSET TextNodes : ResumeRunScan(i, failed)
    \/ \E i \in DOMAIN tasks : ResumeReset(i)

ScanSpec == ScanInit /\ [][ScanNext]_vars

-----------------------------------------------------------------------------
(* The scorer applied as a function: any pattern components, any component *)
(* to score, either mode                                                   *)

PatternChoices == {<<>>, <<1>>, <<2>>, <<3>>, <<2, 3>>, <<4>>}
ScoredChoices == {6, 7, 8}

ApplyHarmony(components, failed, component, baselineMode) ==
    /\ call.status = "idle"
    /\ LET stylePatterns == extractStylePatterns(components, failed)
           patterns == IF baselineMode THEN stylePatterns
                       ELSE [stylePatterns EXCEPT !.components = components]
       IN call' = [status |-> "done",
                   components |-> components,
                   failed |-> failed,
                   component |-> component,
                   baselineMode |-> baselineMode,
                   patterns |-> patterns,
                   raw |-> RawScores(component, patterns),
                   result |-> calculateHarmony(component, patterns, baselineMode)]
    /\ UNCHANGED <<doc, sessionVars>>

HarmonyInit ==
    /\ doc \in WideDocs
    /\ SessionInit
    /\ storage = [controlNodeId |-> Null, referenceNodeId |-> Null]

HarmonyNext ==
    \E components \in PatternChoices, failed \in SUBSET {4},
       component \in ScoredChoices, baselineMode \in BOOLEAN :
        ApplyHarmony(components, failed, component, baselineMode)

HarmonySpec == HarmonyInit /\ [][HarmonyNext]_vars

-----------------------------------------------------------------------------
(* Classification, traversal and extraction applied as functions, over     *)
(* documents with hidden nodes, other names and other fonts                *)

\* the nodes that may be hidden
Hideable == {1, 2, 4, 6, 7}
LeafRadii == {Num(0), Num(4), Num(9)}

\* the base document with the nodes of `hidden` invisible and the
\* background's radius r
HiddenDoc(hidden, r) ==
    [n \in Nodes |->
        IF n \in hidden THEN [BaseDoc[n] EXCEPT !.visible = FALSE]
        ELSE IF n = 7 THEN [BaseDoc[n] EXCEPT !.cornerRadius = <<r>>]
        ELSE BaseDoc[n]]

VisibilityDocs == {HiddenDoc(hidden, r) : hidden \in SUBSET Hideable, r \in LeafRadii}

FrameNames == {<<"C", "T", "A">>,
               <<"B", "u", "t", "t", "o", "n">>,
               <<"I", "n", "p", "u", "t", " ", "b", "t", "n">>,
               <<"I", "c", "o", "n", " ", "c", "a", "r", "d">>,
               <<"C", "a", "r", "d">>}
TextNames == {<<"T", "i", "t", "l", "e">>,
              <<"T", "i", "t", "l", "e", " ", "b", "t", "n">>,
              <<"T", "E", "X", "T", " ", "F", "I", "E", "L", "D">>}
LeafKinds == {[type |-> "RECTANGLE", name |-> <<"b", "g">>],
              [type |-> "VECTOR", name |-> <<"b", "u", "t", "t", "o", "n", " ", "i", "c", "o", "n">>]}

\* the base document with the library's first button and the component to
\* check given one name, and the title and the background renamed
NamedDoc(frameName, textName, leaf) ==
    [BaseDoc EXCEPT ![2].name = frameName,
                    ![6].name = frameName,
                    ![8].name = textName,
                    ![7].type = leaf.type,
                    ![7].name = leaf.name]

NameDocs ==
    {NamedDoc(f, t, l) : f \in FrameNames, t \in TextNames, l \in LeafKinds}

FirstFonts == {Font("Inter", "Bold"), Font("Arial", "Bold"), MixedFont}
LaterFonts == {Font("Roboto", "Regular"), Font("Inter", "Bold"), MixedFont}

\* the base document with the fonts of the library's two labels chosen
FontDoc(first, later, laterSize) ==
    [BaseDoc EXCEPT ![4].fontName = first,
                    ![5].fontName = later,
                    ![5].fontSize = laterSize]

FontDocs ==
    {FontDoc(a, b, z) : a \in FirstFonts, b \in LaterFonts, z \in {Num(16), Num(30)}}

TreeDocs == VisibilityDocs \cup NameDocs \cup FontDocs

TreeInit ==
    /\ doc \in TreeDocs
    /\ SessionInit
    /\ storage = [controlNodeId |-> Null, referenceNodeId |-> Null]

ApplyDetect(node) ==
    /\ call.status = "idle"
    /\ call' = [status |-> "detected", node |-> node,
                result |-> detectComponentType(node)]
    /\ UNCHANGED <<doc, sessionVars>>

ApplyCollect(root) ==
    /\ call.status = "idle"
    /\ call' = [status |-> "collected", root |-> root,
                result |-> collectAllNodes(root)]
    /\ UNCHANGED <<doc, sessionVars>>

ApplyExtract(components) ==
    /\ call.status = "idle"
    /\ call' = [status |-> "extracted", components |-> components,
                result |-> extractStylePatterns(components, {})]
    /\ UNCHANGED <<doc, sessionVars>>

TreeNext ==
    \/ \E node \in Nodes : ApplyDetect(node)
    \/ \E root \in Nodes : ApplyCollect(root)
    \/ \E node \in Nodes : ApplyExtract(<<node>>)
    \/ \E components \in {<<3>>, <<5>>, <<8>>}, component \in {1, 6},
          baselineMode \in BOOLEAN :
          ApplyHarmony(components, {}, component, baselineMode)

TreeSpec == TreeInit /\ [][TreeNext]_vars

-----------------------------------------------------------------------------
(* Properties of a run-scan (specification Spec)                           *)

\* the last handler step completed a run-scan and posted its result
ScanPosted ==
    /\ lastScan.status = "done"
    /\ Len(posted) = 1
    /\ posted[1].type = "scan-result"
    /\ posted[1].success

RECURSIVE IsUnder(_, _)
\* node n is root or a descendant of root
IsUnder(n, root) ==
    \/ n = root
    \/ doc[n].parent # Null /\ IsUnder(doc[n].parent, root)

\* the visible nodes of the baseline classified as the target is
MatchingRoots(scan) ==
    {n \in Nodes : /\ IsUnder(n, scan.controlNode)
                   /\ isNodeVisible(n)
                   /\ detectComponentType(n) = detectComponentType(scan.referenceNode)}

\* the score of the target against the summary of the one pattern root
SingleRootScore(target, root) ==
    BaselineBranch(target,
                   extractPatternsFromSingleNode(root, collectAllNodes(target)))

ScanDirected == lastScan.status \in {"empty", "extracting", "done", "threw"}

\* C2 as the specification states it: after toggle-baseline with value true
\* the next run-scan runs in baseline mode (patterns from the reference node,
\* the control node tested), after value false or no toggle in
\* component-match mode (patterns from the control node, the reference node
\* tested).
C2_ToggleSelectsDirection ==
    ScanDirected =>
        LET scan == lastScan.scan
        IN IF scan.toggled
           THEN /\ scan.useReferenceAsBaseline
                /\ scan.patternSource = scan.referenceNode
                /\ scan.testTarget = scan.controlNode
           ELSE /\ ~scan.useReferenceAsBaseline
                /\ scan.patternSource = scan.controlNode
                /\ scan.testTarget = scan.referenceNode

\* the numeric corner radii of the visible subtree of root
RadiiUnder(root) ==
    {doc[n].cornerRadius[1].v :
        n \in {m \in Range(collectAllNodes(root)) :
                  doc[m].cornerRadius # <<>> /\ IsNumber(doc[m].cornerRadius[1])}}

\* the numeric corner radii of the matched baseline components
BaselineRadii(scan) ==
    UNION {RadiiUnder(scan.patternComponents[i]) : i \in DOMAIN scan.patternComponents}

\* C4 as the specification states it: in a component-match scan the shape
\* score is taken against the [min, max] of the corner radii of the matched
\* baseline components: 100 for a target whose radii are inside the range,
\* below 100 for a target whose radii are all outside of it.
C4_ShapeAgainstBaselineRange ==
    (/\ ScanPosted
     /\ ~lastScan.scan.useReferenceAsBaseline
     /\ BaselineRadii(lastScan.scan) # {}
     /\ RadiiUnder(lastScan.scan.testTarget) # {}) =>
        LET baseline == BaselineRadii(lastScan.scan)
            inside(r) == /\ \E b \in baseline : b <= r
                         /\ \E b \in baseline : r <= b
            target == RadiiUnder(lastScan.scan.testTarget)
        IN /\ (\A r \in target : inside(r)) => posted[1].harmony.shapeScore = 100
           /\ (\A r \in target : ~inside(r)) => posted[1].harmony.shapeScore < 100

-----------------------------------------------------------------------------
(* Properties of calculateHarmony (specification HarmonySpec)              *)

\* calculateHarmony was called; it returned a score object
Called == call.status = "done"
Scored == Called /\ call.result.kind = "score"

\* the unrounded category scores a returned score object may come from: in
\* baseline mode those against the summary passed, in component-match mode
\* those against the summary of one pattern root
RawCandidates ==
    IF call.baselineMode THEN {call.raw}
    ELSE {RawScores(call.component,
                    extractPatternsFromSingleNode(call.components[i],
                                                  collectAllNodes(call.component))) :
             i \in DOMAIN call.components}

\* integer k is the rational n/d rounded to the nearest integer, half up
IsRounded(k, n, d) == (2 * k - 1) * d <= 2 * n /\ 2 * n < (2 * k + 1) * d

\* 100 times the denominator, and the numerator, of 0.30c + 0.30s + 0.25t + 0.15p
WeightedNum(raw) ==
    30 * raw.color.n * raw.shape.d * raw.spacing.d
      + 30 * raw.shape.n * raw.color.d * raw.spacing.d
      + 25 * raw.typography * raw.color.d * raw.shape.d * raw.spacing.d
      + 15 * raw.spacing.n * raw.color.d * raw.shape.d
WeightedDen(raw) == 100 * raw.color.d * raw.shape.d * raw.spacing.d

\* the weighted sum of the REPORTED category scores, rounded
RoundOfReported(r) ==
    MathRound(30 * r.colorScore + 30 * r.shapeScore + 25 * r.typographyScore
                + 15 * r.spacingScore, 100)

\* C3 as the specification states it: overallScore is
\* round(0.30c + 0.30s + 0.25t + 0.15p) of the category scores c, s, t, p
\* reported in the same score object.
C3_OverallFromReported ==
    Scored => call.result.overallScore = RoundOfReported(call.result)

\* C3, as the code has it: the reported category scores are the roundings of
\* unrounded scores c, s, t, p, and overallScore is 0.30c + 0.30s + 0.25t +
\* 0.15p of the UNROUNDED scores rounded half up (27 for the sum 27.5 of
\* 66.67, 0, 0, 50, which falls below the tie in double arithmetic); all
\* scores 0 give 0 and all scores 100 give 100.
C3_OverallFromUnrounded ==
    Scored =>
        LET r == call.result
        IN IF ~call.baselineMode /\ call.components = <<>>
           THEN r.overallScore = 0 /\ RoundOfReported(r) = 0
           ELSE \E raw \in RawCandidates :
                  /\ IsRounded(r.colorScore, raw.color.n, raw.color.d)
                  /\ IsRounded(r.shapeScore, raw.shape.n, raw.shape.d)
                  /\ r.typographyScore = raw.typography
                  /\ IsRounded(r.spacingScore, raw.spacing.n, raw.spacing.d)
                  /\ \/ IsRounded(r.overallScore, WeightedNum(raw), WeightedDen(raw))
                     \/ /\ r.overallScore = 27
                        /\ 2 * WeightedNum(raw) = 55 * WeightedDen(raw)
                        /\ 3 * raw.color.n = 200 * raw.color.d
                  /\ (r.colorScore = 0 /\ r.shapeScore = 0 /\ r.typographyScore = 0
                        /\ r.spacingScore = 0) => r.overallScore = 0
                  /\ (r.colorScore = 100 /\ r.shapeScore = 100
                        /\ r.typographyScore = 100 /\ r.spacingScore = 100)
                        => r.overallScore = 100

\* a score object whose overallScore is not the rounded weighted sum of the
\* category scores it reports
C3_Witness ==
    /\ Scored
    /\ call.baselineMode
    /\ call.result.overallScore # RoundOfReported(call.result)

\* no visible node of the component is a visual container: none has a
\* corner radius together with a visible fill or stroke
NoVisualContainer(component) ==
    \A n \in Range(collectAllNodes(component)) :
        \/ doc[n].cornerRadius = <<>>
        \/ ~(HasVisiblePaint(doc[n].fills) \/ HasVisiblePaint(doc[n].strokes))

\* the score was computed against a pattern summary
ScoredAgainstPattern == Scored /\ (call.baselineMode \/ call.components # <<>>)

\* C5 as the specification states it: when the target's visible subtree
\* contains no corner radius, shapeScore is exactly 0.
C5_ZeroWithoutRadius ==
    (Scored /\ NodeRadii(collectAllNodes(call.component)) = <<>>) =>
        call.result.shapeScore = 0

\* C5, as the code has it: when no visible node of the target contributes a
\* radius to the shape comparison (none is a visual container), shapeScore
\* is exactly 50 in a score computed against a pattern summary; it is 0 only
\* in the all-zero score of a component match over no pattern root.
C5_NeutralWithoutContainer ==
    (Scored /\ NoVisualContainer(call.component)) =>
        call.result.shapeScore = (IF ScoredAgainstPattern THEN 50 ELSE 0)

\* a target without any corner radius scored 50 for shape
C5_Witness ==
    /\ ScoredAgainstPattern
    /\ NodeRadii(collectAllNodes(call.component)) = <<>>
    /\ call.result.shapeScore = 50

\* C6 as the specification states it: when the pattern summary has no
\* corner-radius observation (min and max are those of an empty list), the
\* scorer guards the case: it rejects, or the shape score is 0, never a
\* positive score.
C6_EmptyRangeGuarded ==
    (Called /\ call.patterns.cornerRadiusRange.min = PosInf) =>
        \/ call.result.kind = "throw"
        \/ call.result.shapeScore = 0

\* the names of the five scores
ScoreFields ==
    {"colorScore", "shapeScore", "typographyScore", "spacingScore", "overallScore"}

\* C7: every one of colorScore, shapeScore, typographyScore, spacingScore and
\* overallScore of a returned score object is an integer from 0 to 100, for
\* every target and every pattern summary, empty ones included.
C7_ScoresInRange ==
    Scored => \A f \in ScoreFields : call.result[f] \in 0..100

\* the radius 12 of the target lies three times further from the average 6
\* of the pattern's radii 4 and 8 than they do: the shape score is held at 0
C7_Witness ==
    /\ Scored
    /\ call.baselineMode
    /\ call.patterns.cornerRadiusRange.min = Fin(4)
    /\ call.patterns.cornerRadiusRange.max = Fin(8)
    /\ call.component = 6
    /\ doc[6].cornerRadius = <<Num(12)>>
    /\ doc[6].fills = Paints(<<Solid(White)>>)
    /\ call.result.shapeScore = 0

\* C8 as the specification states it: calculateHarmony never raises; it
\* returns a score object with all five fields for every target, a mixed
\* corner radius or font attribute counting as no contribution.
C8_NeverRaises ==
    Called => /\ call.result.kind = "score"
              /\ \A f \in ScoreFields : call.result[f] \in 0..100

\* the SOLID paints of the visible nodes of the component, one element per
\* occurrence
SolidOccurrences(component) ==
    UNION {{<<n, i>> : i \in {j \in DOMAIN FillsOf(n) : FillsOf(n)[j].type = "SOLID"}} :
              n \in Range(collectAllNodes(component))}

\* those of them whose hex colour is in the palette
PaletteOccurrences(component, palette) ==
    {o \in SolidOccurrences(component) :
        rgbToHex(FillsOf(o[1])[o[2]].color) \in Range(palette)}

\* C9: the colour score against a palette is 50 when the target's visible
\* subtree has no solid fill, and otherwise round(100 * m / n) for the n solid
\* fills found, counted with multiplicity, m of them with a colour of the
\* palette.
C9_ColorScore ==
    (Scored /\ call.baselineMode) =>
        LET n == Cardinality(SolidOccurrences(call.component))
            m == Cardinality(PaletteOccurrences(call.component,
                                                call.patterns.colorPalette))
        IN IF n = 0 THEN call.result.colorScore = 50
           ELSE IsRounded(call.result.colorScore, 100 * m, n)

\* palette {#FFFFFF, #000000}, fills #FFFFFF, #FFFFFF, #123456: score 67
C9_Witness ==
    /\ Scored
    /\ call.baselineMode
    /\ Range(call.patterns.colorPalette) = {rgbToHex(White), rgbToHex(Black)}
    /\ NodeHexes(collectAllNodes(call.component))
          = <<rgbToHex(White), rgbToHex(White), rgbToHex(Other)>>
    /\ call.result.colorScore = 67

\* the text nodes of the visible subtree, in document order
TextsUnder(component) == SelectSeq(collectAllNodes(component), IsText)

\* C10: typographyScore is one of 0, 60, 80, 100; it is at least 60 only if a
\* pattern signature has the family of the target's text, at least 80 only
\* if a signature has its family and its style, and 100 only if a signature
\* of its family and style has a size within 2 of its size.
C10_TypographyGated ==
    (Scored /\ call.baselineMode) =>
        LET t == call.result.typographyScore
            styles == Range(call.patterns.typographyStyles)
            texts == TextsUnder(call.component)
            font == doc[Head(texts)].fontName
            size == doc[Head(texts)].fontSize
        IN /\ t \in {0, 60, 80, 100}
           /\ t >= 60 => /\ texts # <<>>
                         /\ font.kind = "object"
                         /\ \E s \in styles : s.family = font.family
           /\ t >= 80 => \E s \in styles : s.family = font.family /\ s.style = font.style
           /\ t = 100 => \E s \in styles :
                            /\ s.family = font.family
                            /\ s.style = font.style
                            /\ IsNumber(s.size)
                            /\ IsNumber(size)
                            /\ Abs(s.size.v - size.v) <= 2

\* the pattern has a signature of the target's style and one of a size
\* within 2 of the target's, none of its family: no credit
C10_Witness ==
    /\ Scored
    /\ call.baselineMode
    /\ TextsUnder(call.component) # <<>>
    /\ LET font == doc[Head(TextsUnder(call.component))].fontName
           size == doc[Head(TextsUnder(call.component))].fontSize
           styles == Range(call.patterns.typographyStyles)
       IN /\ font.kind = "object"
          /\ \E s \in styles : s.style = font.style
          /\ \E s \in styles : IsNumber(s.size) /\ Abs(s.size.v - size.v) <= 2
          /\ \A s \in styles : s.family # font.family
    /\ call.result.typographyScore = 0

\* the paddings of the target root that lie within the pattern's spacing
\* range, by position (left, right, top, bottom)
PaddingsInRange(component, range) ==
    {i \in DOMAIN doc[component].padding :
        /\ ExtLeq(range.min, Fin(doc[component].padding[i]))
        /\ ExtLeq(Fin(doc[component].padding[i]), range.max)}

\* C11: the spacing score of a target root with padding is round(100 * k / 4)
\* for the k of its four padding values that lie within [patternMin,
\* patternMax], bounds included; it is 0 for a target root without padding.
C11_SpacingScore ==
    (Scored /\ call.baselineMode) =>
        LET pads == doc[call.component].padding
            k == Cardinality(PaddingsInRange(call.component,
                                             call.patterns.spacingValues))
        IN IF pads = <<>> THEN call.result.spacingScore = 0
           ELSE /\ Len(pads) = 4
                /\ IsRounded(call.result.spacingScore, 100 * k, 4)

\* three of the four paddings are in range, one of them on the range's
\* minimum: score 75
C11_Witness ==
    /\ Scored
    /\ call.baselineMode
    /\ Cardinality(PaddingsInRange(call.component, call.patterns.spacingValues)) = 3
    /\ \E i \in DOMAIN doc[call.component].padding :
          Fin(doc[call.component].padding[i]) = call.patterns.spacingValues.min
    /\ call.result.spacingScore = 75

\* C12: when no visible baseline node has the target's classified type,
\* run-scan posts exactly one scan-result, with success = false and a message
\* naming that type, and neither a pattern summary nor a harmony score is
\* produced or posted (and nothing is notified).
C12_EmptyMatchSet ==
    (ScanDirected /\ MatchingRoots(lastScan.scan) = {}) =>
        /\ lastScan.status = "empty"
        /\ posted = <<[type |-> "scan-result", success |-> FALSE,
                       message |-> detectComponentType(lastScan.scan.referenceNode)]>>
        /\ notices = <<>>

\* the baseline is the title, the target the call-to-action frame: no Button
\* in the baseline
C12_Witness ==
    /\ lastScan.status = "empty"
    /\ lastScan.scan.controlNode = 8
    /\ lastScan.scan.referenceNode = 6
    /\ Len(posted) = 1
    /\ posted[1].message = "Button"

\* C13: a run-scan received while the baseline or the target is unset
\* produces only the notice: no extraction runs and no scan-result is
\* posted, whatever messages came before.
C13_MissingInput ==
    (/\ lastScan.status # "none"
     /\ lastScan.scan.controlNode = Null \/ lastScan.scan.referenceNode = Null) =>
        /\ lastScan.status = "missing-input"
        /\ notices = <<"set-both">>
        /\ posted = <<>>

\* both nodes were set (the panel has seen both) and the baseline cleared
\* again before the run-scan
C13_Witness ==
    /\ lastScan.status = "missing-input"
    /\ controlSet
    /\ referenceSet
    /\ lastScan.scan.controlNode = Null
    /\ lastScan.scan.referenceNode # Null
    /\ notices = <<"set-both">>

\* the typography signature of text node n
SignatureOf(n) ==
    [family |-> doc[n].fontName.family,
     style |-> doc[n].fontName.style,
     size |-> IF IsNumber(doc[n].fontSize) THEN doc[n].fontSize ELSE Undefined]

\* the text nodes with a font name visited by an extraction from components
SignedTexts(components) ==
    {n \in Range(SubtreesOf(components)) :
        doc[n].type = "TEXT" /\ doc[n].fontName.kind = "object"}

\* C14: a font load that fails for a text node removes only that node's
\* typography signature: the extraction completes, its colour palette,
\* corner-radius range and spacing range are those of the extraction in
\* which every load succeeds, and its signatures are those of all other text
\* nodes, in the same order.
C14_FontFailureLocal ==
    Called =>
        LET p == call.patterns
            ok == extractStylePatterns(call.components, {})
        IN /\ p.colorPalette = ok.colorPalette
           /\ p.cornerRadiusRange = ok.cornerRadiusRange
           /\ p.spacingValues = ok.spacingValues
           /\ Range(p.typographyStyles)
                = {SignatureOf(n) : n \in SignedTexts(call.components) \ call.failed}
           /\ p.typographyStyles
                = SelectSeq(ok.typographyStyles,
                            LAMBDA g : g \in Range(p.typographyStyles))

\* the load fails for the label of the first button; the signature of the
\* second button's label is all that is left
C14_Witness ==
    /\ Called
    /\ call.components = <<2, 3>>
    /\ call.failed = {4}
    /\ call.patterns.typographyStyles = <<SignatureOf(5)>>
    /\ call.patterns.colorPalette = extractStylePatterns(<<2, 3>>, {}).colorPalette

\* the score of the scored component against the summary extracted from
\* the one pattern source
PerSourceScore(source) ==
    BaselineBranch(call.component, extractStylePatterns(<<source>>, call.failed))

\* the pattern sources a baseline-mode scan takes from a baseline frame
BaselineSources(frame) == getComponentsOfType(frame, "")

-----------------------------------------------------------------------------
(* C16: the radius range of a single-node baseline                         *)

Extracted == call.status = "extracted"

\* the extraction was from one visible node that has no visible descendant
\* and whose corner radius is a number
SingleNodeBaseline ==
    /\ Extracted
    /\ Len(call.components) = 1
    /\ collectAllNodes(call.components[1]) = call.components
    /\ doc[call.components[1]].cornerRadius # <<>>
    /\ IsNumber(doc[call.components[1]].cornerRadius[1])

\* C16: the Pattern Summary extracted from a baseline of a single visible
\* node whose corner radius is the number R has cornerRadiusRange
\* {min: R, max: R, avg: R}, for every R, R = 0 included.
C16_SingleNodeRange ==
    SingleNodeBaseline =>
        LET R == doc[call.components[1]].cornerRadius[1].v
            range == call.result.cornerRadiusRange
        IN /\ range.min = Fin(R)
           /\ range.max = Fin(R)
           /\ range.avg.d # 0
           /\ range.avg.n = R * range.avg.d

\* a single node of radius 0 gives the range {0, 0, 0}
C16_Witness ==
    /\ SingleNodeBaseline
    /\ doc[call.components[1]].cornerRadius[1].v = 0
    /\ call.result.cornerRadiusRange.min = Fin(0)
    /\ call.result.cornerRadiusRange.max = Fin(0)
    /\ call.result.cornerRadiusRange.avg.n = 0

-----------------------------------------------------------------------------
(* C17: classification by type tag and name                                *)

Detected == call.status = "detected"

\* the five categories in their order, with the type tags each accepts
CategoryOrder == <<"Input Field", "Button", "Icon", "Card", "Typography">>

\* the name with its letters in lower case, position by position
LowercasedName(n) ==
    [i \in DOMAIN doc[n].name |->
        IF \E k \in DOMAIN Upper : Upper[k] = doc[n].name[i]
        THEN Lower[CHOOSE k \in DOMAIN Upper : Upper[k] = doc[n].name[i]]
        ELSE doc[n].name[i]]

IsSubstring(p, s) ==
    \E from \in 1..(Len(s) + 1) :
        /\ from + Len(p) - 1 <= Len(s)
        /\ \A k \in 1..Len(p) : s[from + k - 1] = p[k]

\* the positions in the order of the categories that accept node n
AcceptingCategories(n) ==
    {i \in DOMAIN COMPONENT_TYPES :
        /\ doc[n].type \in COMPONENT_TYPES[i].nodeTypes
        /\ \E k \in DOMAIN COMPONENT_TYPES[i].namePatterns :
              IsSubstring(COMPONENT_TYPES[i].namePatterns[k], LowercasedName(n))}

\* C17: detectComponentType returns the first category, in the order Input
\* Field, Button, Icon, Card, Typography, that accepts the node's type tag and
\* has a keyword contained in the node's lowercased name, and "Unknown" when
\* there is none; nodes of equal type tag and name are classified alike
\* whatever their children are.
C17_FirstCategoryWins ==
    Detected =>
        LET accepting == AcceptingCategories(call.node)
        IN /\ [i \in DOMAIN COMPONENT_TYPES |-> COMPONENT_TYPES[i].name] = CategoryOrder
           /\ accepting = {} => call.result = "Unknown"
           /\ accepting # {} =>
                 \E i \in accepting :
                    /\ \A j \in accepting : i <= j
                    /\ call.result = CategoryOrder[i]
           /\ \A m \in Nodes :
                 (doc[m].type = doc[call.node].type /\ doc[m].name = doc[call.node].name)
                     => detectComponentType(m) = call.result

\* a node that two categories accept is given the earlier one, as is a node
\* of the same type tag and name with other children
C17_Witness ==
    /\ Detected
    /\ Cardinality(AcceptingCategories(call.node)) >= 2
    /\ call.result = CategoryOrder[CHOOSE i \in AcceptingCategories(call.node) :
                                      \A j \in AcceptingCategories(call.node) : i <= j]
    /\ \E m \in Nodes :
          /\ m # call.node
          /\ doc[m].type = doc[call.node].type
          /\ doc[m].name = doc[call.node].name
          /\ doc[m].children # doc[call.node].children

-----------------------------------------------------------------------------
(* C18: the visible subtree in depth-first pre-order                       *)

Collected == call.status = "collected"

\* n and every ancestor of n, up to the top of the document, is visible
ChainVisible(n) == \A a \in Nodes : IsUnder(n, a) => doc[a].visible

\* the position of node n in the sequence s that contains it once
PositionIn(s, n) == CHOOSE i \in DOMAIN s : s[i] = n

\* child a comes before child b in the children of their parent
SiblingBefore(a, b) ==
    /\ doc[a].parent # Null
    /\ doc[a].parent = doc[b].parent
    /\ LET cs == doc[doc[a].parent].children
       IN \E i, j \in DOMAIN cs : i < j /\ cs[i] = a /\ cs[j] = b

\* C18: collectAllNodes(root) holds exactly the nodes of root's subtree that
\* are visible together with every ancestor up the whole parent chain, each
\* once, in depth-first pre-order: a node comes before its descendants, the
\* descendants of a node follow it without a gap, and siblings keep the order
\* of their parent's children.
C18_VisiblePreOrder ==
    Collected =>
        LET s == call.result
        IN /\ Range(s) = {n \in Nodes : IsUnder(n, call.root) /\ ChainVisible(n)}
           /\ Len(s) = Cardinality(Range(s))
           /\ s # <<>> => s[1] = call.root
           /\ \A i, j \in DOMAIN s :
                 (i < j /\ IsUnder(s[j], s[i])) =>
                     \A k \in i..j : IsUnder(s[k], s[i])
           /\ \A i, j \in DOMAIN s :
                 (i # j /\ IsUnder(s[j], s[i])) => i < j
           /\ \A i, j \in DOMAIN s :
                 SiblingBefore(s[i], s[j]) => i < j

\* a hidden button takes its visible label out of the library's result, and
\* a button under a hidden library yields nothing
C18_Witness ==
    /\ Collected
    /\ \/ /\ call.root = 1
          /\ ~doc[2].visible
          /\ doc[4].visible
          /\ call.result = <<1, 3, 5>>
       \/ /\ call.root = 2
          /\ ~doc[1].visible
          /\ doc[2].visible
          /\ call.result = <<>>

-----------------------------------------------------------------------------
(* C19: the typography score reads the first text node only                *)

\* the credit of text node t against the signatures `styles`
FontCredit(t, styles) ==
    IF doc[t].fontName.kind # "object" THEN 0
    ELSE LET fam == {i \in DOMAIN styles : styles[i].family = doc[t].fontName.family}
             sty == {i \in fam : styles[i].style = doc[t].fontName.style}
             siz == {i \in sty : /\ IsNumber(styles[i].size)
                                 /\ IsNumber(doc[t].fontSize)
                                 /\ Abs(styles[i].size.v - doc[t].fontSize.v) <= 2}
         IN IF fam = {} THEN 0
            ELSE IF sty = {} THEN 60
            ELSE IF siz = {} THEN 80
            ELSE 100

\* the signature lists the target is compared with: the summary's in
\* baseline mode, each pattern component's own otherwise
SignatureLists ==
    IF call.baselineMode THEN {call.patterns.typographyStyles}
    ELSE {extractPatternsFromSingleNode(call.components[i],
              collectAllNodes(call.component)).typographyStyles :
          i \in DOMAIN call.components}

\* C19: typographyScore is determined by the first text node of the target's
\* visible subtree in depth-first order and the signatures compared with, so
\* the family, style and size of a later text node have no part in it; it is
\* 0 when the subtree has no visible text node.
C19_FirstTextOnly ==
    Scored =>
        LET texts == TextsUnder(call.component)
        IN IF texts = <<>> \/ SignatureLists = {}
           THEN call.result.typographyScore = 0
           ELSE \E styles \in SignatureLists :
                   call.result.typographyScore = FontCredit(texts[1], styles)

\* the target has two visible text nodes, the later of which would have
\* earned another credit
C19_Witness ==
    /\ Scored
    /\ Len(TextsUnder(call.component)) >= 2
    /\ LET texts == TextsUnder(call.component)
       IN \A styles \in SignatureLists :
             /\ FontCredit(texts[Len(texts)], styles) # FontCredit(texts[1], styles)
             /\ call.result.typographyScore = FontCredit(texts[1], styles)

-----------------------------------------------------------------------------
(* C20: a scan works on the nodes selected when it was received            *)

\* the baseline and the target of a scan, from the two nodes set when its
\* message was received
SourceAtReceipt(scan) ==
    IF scan.useReferenceAsBaseline THEN scan.referenceNode ELSE scan.controlNode
TargetAtReceipt(scan) ==
    IF scan.useReferenceAsBaseline THEN scan.controlNode ELSE scan.referenceNode

SourcesAtReceipt(scan) ==
    IF scan.useReferenceAsBaseline
    THEN getComponentsOfType(SourceAtReceipt(scan), "")
    ELSE getComponentsOfType(SourceAtReceipt(scan),
                             detectComponentType(scan.referenceNode))

PatternsAtReceipt(scan, failed) ==
    LET extracted == extractStylePatterns(SourcesAtReceipt(scan), failed)
    IN IF scan.useReferenceAsBaseline THEN extracted
       ELSE [extracted EXCEPT !.components = SourcesAtReceipt(scan)]

\* C20: the result a scan posts is the one computed from the design library
\* and the component that were set when its run-scan message was received,
\* whatever set-control, set-reference, reset, clear-control, clear-reference
\* or another run-scan did to controlNode and referenceNode while the scan
\* was suspended on a font load.
C20_ScanLocalState ==
    ScanPosted =>
        LET scan == lastScan.scan
            patterns == PatternsAtReceipt(scan, lastScan.failed)
        IN /\ scan.patternSource = SourceAtReceipt(scan)
           /\ scan.testTarget = TargetAtReceipt(scan)
           /\ posted[1].componentType = detectComponentType(scan.referenceNode)
           /\ posted[1].patterns = patterns
           /\ posted[1].harmony =
                 calculateHarmony(TargetAtReceipt(scan), patterns,
                                  scan.useReferenceAsBaseline)

\* a scan posts its result after the design library or the component was
\* set to another node, or cleared, during its font loads
C20_Witness ==
    /\ ScanPosted
    /\ \/ controlNode # lastScan.scan.controlNode
       \/ referenceNode # lastScan.scan.referenceNode

-----------------------------------------------------------------------------
(* C21: the panel's flags and the plugin's nodes                           *)

\* no invocation of the handler is suspended
Quiescent == tasks = <<>>

\* C21: whenever no message handler is in flight, the panel's controlSet
\* implies a non-null controlNode and its referenceSet a non-null
\* referenceNode, so that a run-scan sent while both flags are true is never
\* answered with the notice asking for both nodes, whatever messages the
\* plugin has handled, reset, clear-control and clear-reference included.
C21_SessionStateAgrees ==
    /\ Quiescent =>
          /\ controlSet => controlNode # Null
          /\ referenceSet => referenceNode # Null
    /\ (controlSet /\ referenceSet) => lastScan.status # "missing-input"

-----------------------------------------------------------------------------
(* C22: set-control and set-reference without a selection                  *)

\* the step handles a set-control or set-reference received while nothing
\* is selected
EmptySelectionStep == notices' = <<"select-first">>

\* C22: a set-control or set-reference received while the page selection is
\* empty leaves controlNode, referenceNode and both stored node ids as they
\* were, and posts no control-set and no reference-set message; the notice is
\* its only effect.
C22_EmptySelectionKeepsState ==
    [][EmptySelectionStep =>
          /\ controlNode' = controlNode
          /\ referenceNode' = referenceNode
          /\ storage' = storage
          /\ tasks' = tasks
          /\ \A i \in DOMAIN posted' :
                posted'[i].type \notin {"control-set", "reference-set"}
          /\ controlSet' = controlSet
          /\ referenceSet' = referenceSet]_vars

\* the notice is shown while both nodes and both stored ids are still set
C22_Witness ==
    /\ notices = <<"select-first">>
    /\ selection = <<>>
    /\ controlNode # Null
    /\ referenceNode # Null
    /\ storage.controlNodeId = controlNode
    /\ storage.referenceNodeId = referenceNode

====
